---- MODULE Spec2Model ----
(***************************************************************************)
(* Model of spectrum/units.py: the unit tables and the SpectroscopicAxis   *)
(* class (construction, convert_to, velocity_to_frequency,                 *)
(* frequency_to_velocity).                                                 *)
(*                                                                         *)
(* Numbers.  The axis holds real numbers (float arrays).  The model        *)
(* computes with exact decimal rationals  s * n/d * 10^e  of any size,     *)
(* kept in a canonical form (n/d in lowest terms, d coprime to 10, n not a *)
(* multiple of 10), so that two numbers are equal exactly when their       *)
(* records are equal.  The naturals n and d are sequences of limbs, so no   *)
(* intermediate or final result is out of range.  IEEE results that are    *)
(* not finite are kept as "inf" (sign in s) and "nan".  Rounding is not    *)
(* modelled.                                                               *)
(*                                                                         *)
(* Python's None is the string "None"; no input set contains a Python      *)
(* string spelled that way.                                                *)
(***************************************************************************)
EXTENDS Integers, Sequences, FiniteSets, TLC

\* ------------------------------------------------------------------------
\* Bounds of the model
\* ------------------------------------------------------------------------

\* largest magnitude |e| of the decimal exponent of a value that convert_to
\* may store
MaxExp == 4

\* largest integer of the built-in arithmetic (2^31 - 1)
MaxInt == 2147483646 + 1

\* ------------------------------------------------------------------------
\* Natural numbers of any size: sequences of limbs in 0 .. Base-1, least
\* significant limb first, no leading zero limb; 0 is << >>.  Numbers of at
\* most two limbs are computed with the built-in integers.
\* ------------------------------------------------------------------------

Abs(x) == IF x < 0 THEN 0 - x ELSE x

Sign(x) == IF x < 0 THEN 0 - 1 ELSE IF x = 0 THEN 0 ELSE 1

Min(x, y) == IF x < y THEN x ELSE y

Max(x, y) == IF x < y THEN y ELSE x

RECURSIVE GCD(_, _)
GCD(a, b) == IF b = 0 THEN a ELSE GCD(b, a % b)

MulFits(a, b) == a = 0 \/ b = 0 \/ a <= MaxInt \div b

Base == 100 * 100

\* 10^k for k in 0..3
Ten(k) == <<1, 10, 100, 1000>>[k + 1]

RECURSIVE BigOf(_)
BigOf(n) == IF n = 0 THEN << >> ELSE <<n % Base>> \o BigOf(n \div Base)

Small(a) == Len(a) <= 2

\* the value of a number of at most two limbs
BigVal(a) ==
    IF a = << >> THEN 0
    ELSE IF Len(a) = 1 THEN a[1]
    ELSE a[1] + Base * a[2]

RECURSIVE BigTrim(_)
BigTrim(a) ==
    IF a = << >> THEN a
    ELSE IF a[Len(a)] = 0 THEN BigTrim(SubSeq(a, 1, Len(a) - 1))
    ELSE a

RECURSIVE BigAddC(_, _, _)
BigAddC(a, b, c) ==
    IF a = << >> /\ b = << >> THEN (IF c = 0 THEN << >> ELSE <<c>>)
    ELSE LET da == IF a = << >> THEN 0 ELSE Head(a)
             db == IF b = << >> THEN 0 ELSE Head(b)
             ta == IF a = << >> THEN a ELSE Tail(a)
             tb == IF b = << >> THEN b ELSE Tail(b)
             x  == da + db + c
         IN  <<x % Base>> \o BigAddC(ta, tb, x \div Base)

BigAdd(a, b) ==
    IF Small(a) /\ Small(b) THEN BigOf(BigVal(a) + BigVal(b))
    ELSE BigAddC(a, b, 0)

RECURSIVE BigLessAt(_, _, _)
BigLessAt(a, b, i) ==
    IF i = 0 THEN FALSE
    ELSE IF a[i] # b[i] THEN a[i] < b[i]
    ELSE BigLessAt(a, b, i - 1)

BigLess(a, b) ==
    IF Len(a) # Len(b) THEN Len(a) < Len(b) ELSE BigLessAt(a, b, Len(a))

\* limbs of a - b - c for a >= b + c, leading zeros not yet removed
RECURSIVE BigSubC(_, _, _)
BigSubC(a, b, c) ==
    IF a = << >> THEN << >>
    ELSE LET db == IF b = << >> THEN 0 ELSE Head(b)
             tb == IF b = << >> THEN b ELSE Tail(b)
             x  == Head(a) - db - c
         IN  IF x < 0 THEN <<x + Base>> \o BigSubC(Tail(a), tb, 1)
             ELSE <<x>> \o BigSubC(Tail(a), tb, 0)

\* a - b for a >= b
BigSub(a, b) ==
    IF Small(a) THEN BigOf(BigVal(a) - BigVal(b))
    ELSE BigTrim(BigSubC(a, b, 0))

\* a * m + c for a limb m >= 1
RECURSIVE BigMulSmall(_, _, _)
BigMulSmall(a, m, c) ==
    IF a = << >> THEN (IF c = 0 THEN << >> ELSE <<c>>)
    ELSE LET x == Head(a) * m + c
         IN  <<x % Base>> \o BigMulSmall(Tail(a), m, x \div Base)

\* a * Base^k
BigShift(a, k) == IF a = << >> THEN a ELSE [i \in 1..k |-> 0] \o a

\* a * 10^k
BigTimesTen(a, k) ==
    IF k % 4 = 0 THEN BigShift(a, k \div 4)
    ELSE BigShift(BigMulSmall(a, Ten(k % 4), 0), k \div 4)

RECURSIVE BigMulLong(_, _)
BigMulLong(a, b) ==
    IF b = << >> THEN << >>
    ELSE LET rest == BigShift(BigMulLong(a, Tail(b)), 1)
         IN  IF Head(b) = 0 THEN rest
             ELSE BigAddC(BigMulSmall(a, Head(b), 0), rest, 0)

BigMul(a, b) ==
    IF a = << >> \/ b = << >> THEN << >>
    ELSE IF Small(a) /\ Small(b) /\ MulFits(BigVal(a), BigVal(b))
    THEN BigOf(BigVal(a) * BigVal(b))
    ELSE BigMulLong(a, b)

\* division by a limb m, from limb i of a downwards; q and r are the quotient
\* and the remainder of the limbs above i
RECURSIVE BigDivSmall(_, _, _, _, _)
BigDivSmall(a, m, i, q, r) ==
    IF i = 0 THEN [q |-> BigTrim(q), r |-> BigOf(r)]
    ELSE LET x == r * Base + a[i]
         IN  BigDivSmall(a, m, i - 1, <<x \div m>> \o q, x % m)

\* the largest k in lo..hi with b * k <= a, given b * lo <= a
RECURSIVE BigQuotLimb(_, _, _, _)
BigQuotLimb(a, b, lo, hi) ==
    IF lo = hi THEN lo
    ELSE LET mid == (lo + hi + 1) \div 2
         IN  IF BigLess(a, BigMulSmall(b, mid, 0))
             THEN BigQuotLimb(a, b, lo, mid - 1)
             ELSE BigQuotLimb(a, b, mid, hi)

\* the limbs m and above of x, which has m or m + 1 limbs
BigTop(x, m) == IF Len(x) = m THEN x[m] ELSE x[m + 1] * Base + x[m]

\* long division by b, from limb i of a downwards; q and r are the quotient
\* and the remainder of the limbs above i, x is r with limb i appended and k
\* the next limb of the quotient, which the leading limbs of x and b bound
RECURSIVE BigDivLong(_, _, _, _, _)
BigDivTake(a, b, i, q, x, k) ==
    BigDivLong(a, b, i - 1, <<k>> \o q, BigSub(x, BigMulSmall(b, k, 0)))

BigDivStep(a, b, i, q, x) ==
    IF BigLess(x, b) THEN BigDivLong(a, b, i - 1, <<0>> \o q, x)
    ELSE BigDivTake(a, b, i, q, x,
             BigQuotLimb(x, b,
                 Max(1, BigTop(x, Len(b)) \div (b[Len(b)] + 1)),
                 Min(Base - 1, BigTop(x, Len(b)) \div b[Len(b)])))

BigDivLong(a, b, i, q, r) ==
    IF i = 0 THEN [q |-> BigTrim(q), r |-> r]
    ELSE BigDivStep(a, b, i, q, BigTrim(<<a[i]>> \o r))

\* quotient and remainder of a by b # 0
BigDivMod(a, b) ==
    IF Small(a) /\ Small(b)
    THEN [q |-> BigOf(BigVal(a) \div BigVal(b)),
          r |-> BigOf(BigVal(a) % BigVal(b))]
    ELSE IF BigLess(a, b) THEN [q |-> << >>, r |-> a]
    ELSE IF Len(b) = 1 THEN BigDivSmall(a, b[1], Len(a), << >>, 0)
    ELSE BigDivLong(a, b, Len(a), << >>, << >>)

\* Euclid's algorithm on the pair p, at most 2^k division steps
RECURSIVE Euclid(_, _)
Euclid(p, k) ==
    IF p[2] = << >> THEN p
    ELSE IF Small(p[1]) /\ Small(p[2])
    THEN <<BigOf(GCD(BigVal(p[1]), BigVal(p[2]))), << >> >>
    ELSE IF k = 0 THEN <<p[2], BigDivMod(p[1], p[2]).r>>
    ELSE Euclid(Euclid(p, k - 1), k - 1)

BigGCD(a, b) == Euclid(<<a, b>>, 12)[1]

\* ------------------------------------------------------------------------
\* Exact decimal rational arithmetic: s * n/d * 10^e with the sign s and the
\* naturals n, d; "inf" (sign in s) and "nan" for the IEEE results that are
\* not finite
\* ------------------------------------------------------------------------

NaN == [t |-> "nan", s |-> 0, n |-> << >>, d |-> <<1>>, e |-> 0]

Inf(s) == [t |-> "inf", s |-> s, n |-> << >>, d |-> <<1>>, e |-> 0]

Zero == [t |-> "fin", s |-> 0, n |-> << >>, d |-> <<1>>, e |-> 0]

\* the absent value of an optional numeric argument
NoneNum == [t |-> "none", s |-> 0, n |-> << >>, d |-> <<1>>, e |-> 0]

\* move the factors 10 of n # 0 into the exponent
RECURSIVE StripN(_, _, _, _)
StripN(s, n, d, e) ==
    IF Head(n) = 0 THEN StripN(s, Tail(n), d, e + 4)
    ELSE IF Head(n) % 10 = 0
    THEN StripN(s, BigDivSmall(n, 10, Len(n), << >>, 0).q, d, e + 1)
    ELSE [t |-> "fin", s |-> s, n |-> n, d |-> d, e |-> e]

\* remove the factors 2 and 5 of d (n/d in lowest terms, n # 0): n/(m*d') is
\* (n * 10/m)/d' * 10^-1
RECURSIVE StripD(_, _, _, _)
StripD(s, n, d, e) ==
    IF Head(d) = 0 THEN StripD(s, n, Tail(d), e - 4)
    ELSE IF Head(d) % 2 # 0 /\ Head(d) % 5 # 0 THEN StripN(s, n, d, e)
    ELSE LET m == IF Head(d) % 2 = 0 THEN 2 ELSE 5
         IN  StripD(s, BigMulSmall(n, 10 \div m, 0),
                    BigDivSmall(d, m, Len(d), << >>, 0).q, e - 1)

\* a / g for a divisor g of a
BigQuot(a, g) == IF g = <<1>> THEN a ELSE BigDivMod(a, g).q

\* n/d * 10^e for the pair nd = <<n, d>> in lowest terms
StripPair(s, nd, e) == StripD(s, nd[1], nd[2], e)

\* s * n/d * 10^e for the greatest common divisor g of n and d
Reduce(s, n, d, e, g) ==
    StripPair(s, [j \in 1..2 |-> BigQuot(<<n, d>>[j], g)], e)

\* canonical form of s * n/d * 10^e for naturals n and d # 0
BigNorm(s, n, d, e) ==
    IF n = << >> \/ s = 0 THEN Zero ELSE Reduce(s, n, d, e, BigGCD(n, d))

\* canonical form of n/d * 10^e for integers n and d > 0
Norm(n, d, e) == BigNorm(Sign(n), BigOf(Abs(n)), BigOf(d), e)

Num(k) == Norm(k, 1, 0)

P10(e) == [t |-> "fin", s |-> 1, n |-> <<1>>, d |-> <<1>>, e |-> e]

One == P10(0)

Neg(a) == IF a.t \in {"fin", "inf"} THEN [a EXCEPT !.s = 0 - a.s] ELSE a

Mul(a, b) ==
    IF a.t = "nan" \/ b.t = "nan" THEN NaN
    ELSE IF a.t = "inf" \/ b.t = "inf"
         THEN IF a.s = 0 \/ b.s = 0 THEN NaN ELSE Inf(a.s * b.s)
    ELSE BigNorm(a.s * b.s, BigMul(a.n, b.n), BigMul(a.d, b.d), a.e + b.e)

\* a / b as numpy divides arrays: a zero divisor gives inf or nan; the zeros
\* that arise here are positive
Div(a, b) ==
    IF a.t = "nan" \/ b.t = "nan" THEN NaN
    ELSE IF b.t = "inf"
         THEN IF a.t = "inf" THEN NaN ELSE Zero
    ELSE IF b.s = 0
         THEN IF a.s = 0 THEN NaN ELSE Inf(a.s)
    ELSE IF a.t = "inf" THEN Inf(a.s * b.s)
    ELSE BigNorm(a.s * b.s, BigMul(a.n, b.d), BigMul(a.d, b.n), a.e - b.e)

AddAligned(sa, ta, sb, tb, d, e) ==
    BigNorm(IF sa = sb \/ BigLess(tb, ta) THEN sa ELSE sb,
            IF sa = sb THEN BigAdd(ta, tb)
            ELSE IF BigLess(ta, tb) THEN BigSub(tb, ta)
            ELSE BigSub(ta, tb),
            d, e)

Add(a, b) ==
    IF a.t = "nan" \/ b.t = "nan" THEN NaN
    ELSE IF a.t = "inf"
         THEN IF b.t = "inf" /\ b.s # a.s THEN NaN ELSE a
    ELSE IF b.t = "inf" THEN b
    ELSE IF a.s = 0 THEN b
    ELSE IF b.s = 0 THEN a
    ELSE AddAligned(a.s, BigTimesTen(BigMul(a.n, b.d), a.e - Min(a.e, b.e)),
                    b.s, BigTimesTen(BigMul(b.n, a.d), b.e - Min(a.e, b.e)),
                    BigMul(a.d, b.d), Min(a.e, b.e))

Sub(a, b) == Add(a, Neg(b))

\* x ** 2
Sq(a) == Mul(a, a)

\* array (*, /) scalar, element by element
MulAll(xs, f) == [i \in DOMAIN xs |-> Mul(xs[i], f)]

DivAll(xs, f) == [i \in DOMAIN xs |-> Div(xs[i], f)]

\* the decimal exponents of the finite elements are within the bound
Storable(xs) ==
    \A i \in DOMAIN xs : xs[i].t = "fin" => Abs(xs[i].e) <= MaxExp

\* ------------------------------------------------------------------------
\* The unit tables
\* ------------------------------------------------------------------------

None == "None"

length_dict ==
    ("meters" :> P10(0)) @@ ("m" :> P10(0)) @@
    ("centimeters" :> P10(-2)) @@ ("cm" :> P10(-2)) @@
    ("millimeters" :> P10(-3)) @@ ("mm" :> P10(-3)) @@
    ("nanometers" :> P10(-9)) @@ ("nm" :> P10(-9)) @@
    ("micrometers" :> P10(-6)) @@ ("micron" :> P10(-6)) @@
    ("microns" :> P10(-6)) @@ ("um" :> P10(-6)) @@
    ("kilometers" :> P10(3)) @@ ("km" :> P10(3)) @@
    ("angstroms" :> P10(-10)) @@ ("A" :> P10(-10))

frequency_dict ==
    ("Hz" :> P10(0)) @@ ("kHz" :> P10(3)) @@ ("MHz" :> P10(6)) @@
    ("GHz" :> P10(9)) @@ ("THz" :> P10(12))

velocity_dict ==
    ("meters/second" :> P10(0)) @@ ("m/s" :> P10(0)) @@
    ("kilometers/s" :> P10(3)) @@ ("km/s" :> P10(3)) @@ ("kms" :> P10(3)) @@
    ("centimeters/s" :> P10(-2)) @@ ("cm/s" :> P10(-2)) @@ ("cms" :> P10(-2))

conversion_dict ==
    ("VELOCITY" :> velocity_dict) @@ ("Velocity" :> velocity_dict) @@
    ("velocity" :> velocity_dict) @@ ("velo" :> velocity_dict) @@
    ("VELO" :> velocity_dict) @@
    ("LENGTH" :> length_dict) @@ ("Length" :> length_dict) @@
    ("length" :> length_dict) @@
    ("FREQUENCY" :> frequency_dict) @@ ("Frequency" :> frequency_dict) @@
    ("frequency" :> frequency_dict) @@ ("freq" :> frequency_dict) @@
    ("FREQ" :> frequency_dict)

unit_type_dict ==
    [u \in DOMAIN frequency_dict |-> "frequency"] @@
    [u \in DOMAIN velocity_dict |-> "velocity"] @@
    [u \in DOMAIN length_dict |-> "length"] @@
    (None :> None)

xtype_dict ==
    ("VLSR" :> "velocity") @@ ("VRAD" :> "velocity") @@
    ("VELO" :> "velocity") @@ ("VOPT" :> "velocity") @@
    ("VHEL" :> "velocity") @@ ("VGEO" :> "velocity") @@
    ("VREST" :> "velocity") @@ ("velocity" :> "velocity") @@
    ("Z" :> "redshift") @@
    ("FREQ" :> "frequency") @@ ("frequency" :> "frequency") @@
    ("WAV" :> "length") @@ ("WAVE" :> "length") @@
    ("wavelength" :> "length")

frame_dict ==
    ("VLSR" :> "LSR") @@ ("VRAD" :> "LSR") @@ ("VELO" :> "LSR") @@
    ("VOPT" :> "LSR") @@
    ("VHEL" :> "heliocentric") @@
    ("VGEO" :> "geocentric") @@
    ("velocity" :> "LSR") @@
    ("VREST" :> "rest") @@
    ("Z" :> "rest") @@
    ("FREQ" :> "rest") @@ ("frequency" :> "rest") @@
    ("WAV" :> "rest") @@ ("WAVE" :> "rest") @@ ("wavelength" :> "rest")

speedoflight_ms == Num(299792458)


\* ------------------------------------------------------------------------
\* SpectroscopicAxis: the methods as functions of the object
\* ------------------------------------------------------------------------

\* outcomes of a call
OK == "ok"

PrintedAlready == "ok, printed: Already in desired units and frame"

PrintedFrames == "ok, printed: Converting frames"

KeyError == "KeyError"

NameError == "NameError"

NoCenter == "ValueError: Cannot convert without specifying a central frequency"

BadFrequencyUnits == "ValueError: Bad frequency units"

BadVelocityUnits == "ValueError: Bad velocity units"

BadConvention == "ValueError: Convention is not allowed"

Errors ==
    {KeyError, NameError, NoCenter, BadFrequencyUnits, BadVelocityUnits,
     BadConvention}

\* the object before construction
NoAxis ==
    [values |-> << >>, units |-> None, frame |-> None, xtype |-> None,
     reffreq |-> NoneNum, redshift |-> NoneNum]

Return(self, outcome) == [self |-> self, result |-> outcome]

\* __new__ that lets the frame argument stand when the xtype is recognized
new_keeps_frame(xarr, unit, fr, xt, rf, z) ==
    IF xt \in DOMAIN xtype_dict
    THEN Return([values |-> xarr, units |-> unit, frame |-> fr,
                 xtype |-> xtype_dict[xt], reffreq |-> rf, redshift |-> z],
                OK)
    ELSE IF unit \in DOMAIN unit_type_dict
    THEN Return([values |-> xarr, units |-> unit, frame |-> fr,
                 xtype |-> unit_type_dict[unit], reffreq |-> rf,
                 redshift |-> z], OK)
    ELSE Return(NoAxis, KeyError)

\* SpectroscopicAxis.__new__
new(xarr, unit, fr, xt, rf, z) ==
    IF xt \in DOMAIN xtype_dict
    THEN Return([values |-> xarr, units |-> unit, frame |-> frame_dict[xt],
                 xtype |-> xtype_dict[xt], reffreq |-> rf, redshift |-> z],
                OK)
    ELSE IF unit \in DOMAIN unit_type_dict
    THEN Return([values |-> xarr, units |-> unit, frame |-> fr,
                 xtype |-> unit_type_dict[unit], reffreq |-> rf,
                 redshift |-> z], OK)
    ELSE Return(NoAxis, KeyError)

\* the quotient of the two scale factors taken the wrong way round
conversion_factor_inverted(xt, from, to) ==
    Div(conversion_dict[xt][to], conversion_dict[xt][from])

\* conversion_dict[self.xtype][self.units] / conversion_dict[self.xtype][unit]
conversion_factor(xt, from, to) ==
    Div(conversion_dict[xt][from], conversion_dict[xt][to])

\* SpectroscopicAxis.convert_to
convert_to(self, unit, fr) ==
    IF unit = self.units /\ fr = self.frame
    THEN Return(self, PrintedAlready)
    ELSE IF fr = self.frame
    THEN IF self.xtype \notin DOMAIN conversion_dict
         THEN Return(self, KeyError)
         ELSE IF self.units \notin DOMAIN conversion_dict[self.xtype]
         THEN Return(self, KeyError)
         ELSE IF unit \notin DOMAIN conversion_dict[self.xtype]
         THEN Return(self, KeyError)
         ELSE Return([self EXCEPT !.values =
                          MulAll(self.values,
                                 conversion_factor(self.xtype, self.units,
                                                   unit))],
                     OK)
    ELSE Return(self, PrintedFrames)

\* velocity_to_frequency without the final else: an unknown convention falls
\* through to the assignment of the unbound freq
velocity_to_frequency_no_else(self, center_frequency, frequency_units, convention) ==
    IF center_frequency = NoneNum
    THEN Return(self, NoCenter)
    ELSE IF frequency_units \notin DOMAIN frequency_dict
    THEN Return(self, BadFrequencyUnits)
    ELSE IF self.units \notin DOMAIN velocity_dict
    THEN Return(self, KeyError)
    ELSE Return(self, NameError)

\* SpectroscopicAxis.velocity_to_frequency.  Every convention branch reads
\* the name central_frequency, which is bound nowhere (the parameter is
\* center_frequency).
velocity_to_frequency(self, center_frequency, frequency_units, convention) ==
    IF center_frequency = NoneNum
    THEN Return(self, NoCenter)
    ELSE IF frequency_units \notin DOMAIN frequency_dict
    THEN Return(self, BadFrequencyUnits)
    ELSE IF self.units \notin DOMAIN velocity_dict
    THEN Return(self, KeyError)
    ELSE LET velocity_ms ==
                 DivAll(MulAll(self.values, velocity_dict["m/s"]),
                        velocity_dict[self.units])
         IN  IF convention \in {"radio", "optical", "relativistic"}
             THEN Return(self, NameError)
             ELSE Return(self, BadConvention)

\* the three Doppler formulas of frequency_to_velocity, for one element
f2v_radio(frequency_hz, center_frequency_hz) ==
    Div(Mul(speedoflight_ms, Sub(frequency_hz, center_frequency_hz)),
        center_frequency_hz)

f2v_optical(frequency_hz, center_frequency_hz) ==
    Div(Mul(speedoflight_ms, Sub(frequency_hz, center_frequency_hz)),
        frequency_hz)

f2v_relativistic(frequency_hz, center_frequency_hz) ==
    Div(Mul(speedoflight_ms,
            Sub(Sq(center_frequency_hz), Sq(frequency_hz))),
        Sq(Add(Sq(center_frequency_hz), frequency_hz)))

\* frequency_to_velocity that sets units and xtype before it looks at the
\* convention
frequency_to_velocity_early_units(self, center_frequency, cf_units, velocity_units, convention) ==
    IF center_frequency = NoneNum
    THEN Return(self, NoCenter)
    ELSE IF cf_units \notin DOMAIN frequency_dict
    THEN Return(self, NameError)
    ELSE IF velocity_units \notin DOMAIN velocity_dict
    THEN Return(self, BadVelocityUnits)
    ELSE IF self.units \notin DOMAIN frequency_dict
    THEN Return(self, KeyError)
    ELSE LET frequency_hz ==
                 DivAll(MulAll(self.values, frequency_dict["Hz"]),
                        frequency_dict[self.units])
             center_frequency_hz ==
                 Div(Mul(center_frequency, frequency_dict["Hz"]),
                     frequency_dict[cf_units])
             velocity ==
                 [i \in DOMAIN frequency_hz |->
                     IF convention = "radio"
                     THEN f2v_radio(frequency_hz[i], center_frequency_hz)
                     ELSE IF convention = "optical"
                     THEN f2v_optical(frequency_hz[i], center_frequency_hz)
                     ELSE f2v_relativistic(frequency_hz[i],
                                           center_frequency_hz)]
             early == [self EXCEPT !.units = velocity_units,
                                   !.xtype = "Velocity"]
         IN  IF convention \notin {"radio", "optical", "relativistic"}
             THEN Return(early, BadConvention)
             ELSE Return([early EXCEPT
                            !.values = DivAll(MulAll(velocity,
                                                     velocity_dict["m/s"]),
                                              velocity_dict[velocity_units])],
                         OK)

\* SpectroscopicAxis.frequency_to_velocity.  The message of the error for a
\* bad center_frequency_units (cf_units) reads the unbound name frequency_units.
frequency_to_velocity(self, center_frequency, cf_units, velocity_units, convention) ==
    IF center_frequency = NoneNum
    THEN Return(self, NoCenter)
    ELSE IF cf_units \notin DOMAIN frequency_dict
    THEN Return(self, NameError)
    ELSE IF velocity_units \notin DOMAIN velocity_dict
    THEN Return(self, BadVelocityUnits)
    ELSE IF self.units \notin DOMAIN frequency_dict
    THEN Return(self, KeyError)
    ELSE LET frequency_hz ==
                 DivAll(MulAll(self.values, frequency_dict["Hz"]),
                        frequency_dict[self.units])
             center_frequency_hz ==
                 Div(Mul(center_frequency, frequency_dict["Hz"]),
                     frequency_dict[cf_units])
             velocity ==
                 [i \in DOMAIN frequency_hz |->
                     IF convention = "radio"
                     THEN f2v_radio(frequency_hz[i], center_frequency_hz)
                     ELSE IF convention = "optical"
                     THEN f2v_optical(frequency_hz[i], center_frequency_hz)
                     ELSE f2v_relativistic(frequency_hz[i],
                                           center_frequency_hz)]
         IN  IF convention \notin {"radio", "optical", "relativistic"}
             THEN Return(self, BadConvention)
             ELSE Return([self EXCEPT
                            !.values = DivAll(MulAll(velocity,
                                                     velocity_dict["m/s"]),
                                              velocity_dict[velocity_units]),
                            !.units = velocity_units,
                            !.xtype = "Velocity"],
                         OK)

\* ------------------------------------------------------------------------
\* Inputs of the model
\* ------------------------------------------------------------------------

\* arrays of floats
XarrIn == {<<Zero, Num(1), Num(10)>>}

UnitIn ==
    {"meters", "centimeters", "nm", "Hz", "kHz", "m/s", "km/s", None,
     "furlongs"}

TargetUnitIn ==
    {"meters", "centimeters", "Hz", "kHz", "m/s", "km/s", "furlongs"}

FrameIn == {"rest", "LSR"}

XtypeIn == {None, "VLSR", "VHEL", "FREQ", "Z", "bogus"}

CenterIn == {NoneNum, Num(2)}

FrequencyUnitIn == {"Hz", "kHz", "furlongs"}

VelocityUnitIn == {"m/s", "km/s", "furlongs"}

ConventionIn == {"radio", "optical", "relativistic", "warp"}

ReffreqIn == {NoneNum}

RedshiftIn == {NoneNum}

\* ------------------------------------------------------------------------
\* The state machine
\* ------------------------------------------------------------------------

VARIABLES
    alive,      \* an axis object exists
    values,     \* the array
    units, frame, xtype, reffreq, redshift,   \* its attributes
    result,     \* outcome of the last call
    call,       \* the last call: its name and arguments
    pre         \* the object as it was before the last call

vars ==
    <<alive, values, units, frame, xtype, reffreq, redshift, result, call,
      pre>>

Self ==
    [values |-> values, units |-> units, frame |-> frame, xtype |-> xtype,
     reffreq |-> reffreq, redshift |-> redshift]

Init ==
    /\ alive = FALSE
    /\ values = NoAxis.values
    /\ units = NoAxis.units
    /\ frame = NoAxis.frame
    /\ xtype = NoAxis.xtype
    /\ reffreq = NoAxis.reffreq
    /\ redshift = NoAxis.redshift
    /\ result = OK
    /\ call = [op |-> "none"]
    /\ pre = NoAxis

\* the object and the outcome after a call that returned r
Becomes(r, c) ==
    /\ values' = r.self.values
    /\ units' = r.self.units
    /\ frame' = r.self.frame
    /\ xtype' = r.self.xtype
    /\ reffreq' = r.self.reffreq
    /\ redshift' = r.self.redshift
    /\ result' = r.result
    /\ call' = c
    /\ pre' = Self

New(xarr, unit, fr, xt, rf, z) ==
    /\ ~alive
    /\ LET r == new(xarr, unit, fr, xt, rf, z)
       IN  /\ alive' = (r.result = OK)
           /\ Becomes(r, [op |-> "new", unit |-> unit, frame |-> fr,
                          xtype |-> xt])

\* convert_to never sets units, so a repeated call scales the values again and
\* again; the model follows a scaling only while the exponents stay within
\* MaxExp
ConvertTo(unit, fr) ==
    /\ alive
    /\ UNCHANGED alive
    /\ LET r == convert_to(Self, unit, fr)
       IN  /\ r.self.values = values \/ Storable(r.self.values)
           /\ Becomes(r, [op |-> "convert_to", unit |-> unit, frame |-> fr])

VelocityToFrequency(cf, fu, conv) ==
    /\ alive
    /\ UNCHANGED alive
    /\ Becomes(velocity_to_frequency(Self, cf, fu, conv),
               [op |-> "velocity_to_frequency", center_frequency |-> cf,
                frequency_units |-> fu, convention |-> conv])

FrequencyToVelocity(cf, cu, vu, conv) ==
    /\ alive
    /\ UNCHANGED alive
    /\ Becomes(frequency_to_velocity(Self, cf, cu, vu, conv),
               [op |-> "frequency_to_velocity", center_frequency |-> cf,
                center_frequency_units |-> cu, velocity_units |-> vu,
                convention |-> conv])

Next ==
    \/ \E xarr \in XarrIn, unit \in UnitIn, fr \in FrameIn, xt \in XtypeIn,
          rf \in ReffreqIn, z \in RedshiftIn :
          New(xarr, unit, fr, xt, rf, z)
    \/ \E unit \in TargetUnitIn, fr \in FrameIn : ConvertTo(unit, fr)
    \/ \E cf \in CenterIn, fu \in FrequencyUnitIn, conv \in ConventionIn :
          VelocityToFrequency(cf, fu, conv)
    \/ \E cf \in CenterIn, cu \in FrequencyUnitIn, vu \in VelocityUnitIn,
          conv \in ConventionIn :
          FrequencyToVelocity(cf, cu, vu, conv)

Spec == Init /\ [][Next]_vars


\* ------------------------------------------------------------------------
\* Vocabulary of the properties
\* ------------------------------------------------------------------------

Methods == {"convert_to", "velocity_to_frequency", "frequency_to_velocity"}

Conventions == {"radio", "optical", "relativistic"}

RegisteredUnits == DOMAIN unit_type_dict \ {None}

\* the quantity family an xtype value denotes
QuantityFamily(xt) ==
    IF xt \in DOMAIN conversion_dict
    THEN unit_type_dict[CHOOSE u \in DOMAIN conversion_dict[xt] : TRUE]
    ELSE xt

\* scaleFactor(family, unit) of the registry
scaleFactor(family, unit) == conversion_dict[family][unit]

\* the four fields a conversion may touch are as before the last call
AxisUntouched ==
    /\ values = pre.values
    /\ units = pre.units
    /\ xtype = pre.xtype
    /\ frame = pre.frame

\* f = f0 * (1 - V/c)
RadioFrequency(f0, V) == Mul(f0, Sub(One, Div(V, speedoflight_ms)))

\* V = c * (f - f0) / f0
RadioVelocity(f, f0) == Div(Mul(speedoflight_ms, Sub(f, f0)), f0)

\* ------------------------------------------------------------------------
\* C1  Round trip of convert_to: on an axis in unit u1 whose family was
\* inferred from u1 and whose frame is 'rest', convert_to(u2) for a unit u2
\* of the same family followed by convert_to(u1) leaves the values equal to
\* the values before the first call.
\* ------------------------------------------------------------------------
C1_ConvertRoundTrip ==
    [][ ( /\ alive
          /\ call.op = "convert_to"
          /\ call.frame = "rest"
          /\ pre.frame = "rest"
          /\ pre.units \in RegisteredUnits
          /\ pre.xtype = unit_type_dict[pre.units]
          /\ call.unit \in RegisteredUnits
          /\ unit_type_dict[call.unit] = unit_type_dict[pre.units]
          /\ ConvertTo(pre.units, "rest") )
        => values' = pre.values ]_vars

\* ------------------------------------------------------------------------
\* C2  Scale correctness of convert_to: with the target frame equal to the
\* axis's frame, the target unit different from the current one and both
\* registered under the axis's family, one convert_to multiplies every value
\* by scaleFactor(family, units) / scaleFactor(family, targetUnit); from
\* 'meters' to 'centimeters' that is exactly 100.
\* ------------------------------------------------------------------------
C2_ScaleCorrect ==
    ( /\ alive
      /\ call.op = "convert_to"
      /\ call.frame = pre.frame
      /\ call.unit # pre.units
      /\ pre.xtype \in DOMAIN conversion_dict
      /\ pre.units \in DOMAIN conversion_dict[pre.xtype]
      /\ call.unit \in DOMAIN conversion_dict[pre.xtype] )
    => /\ result = OK
       /\ values =
            [i \in DOMAIN pre.values |->
                Mul(pre.values[i],
                    Div(scaleFactor(pre.xtype, pre.units),
                        scaleFactor(pre.xtype, call.unit)))]
       /\ (pre.units = "meters" /\ call.unit = "centimeters")
            => values = [i \in DOMAIN pre.values |->
                            Mul(pre.values[i], Num(100))]

C2_Witness ==
    /\ alive
    /\ call.op = "convert_to"
    /\ call.unit = "centimeters"
    /\ call.frame = pre.frame
    /\ pre.units = "meters"
    /\ pre.xtype = "length"
    /\ pre.values = <<Zero, Num(1), Num(10)>>
    /\ values = <<Zero, Num(100), Num(1000)>>

\* ------------------------------------------------------------------------
\* C3  velocity_to_frequency with a center frequency f0, a registered
\* frequency unit and the convention 'radio', on a velocity-typed axis,
\* completes without error, replaces every value V (in m/s) by
\* f0 * (1 - V/c), sets units to the requested unit and xtype to
\* "frequency".
\* ------------------------------------------------------------------------
C3_RadioVelocityToFrequency ==
    ( /\ alive
      /\ call.op = "velocity_to_frequency"
      /\ call.center_frequency # NoneNum
      /\ call.frequency_units \in DOMAIN frequency_dict
      /\ call.convention = "radio"
      /\ QuantityFamily(pre.xtype) = "velocity"
      /\ pre.units \in DOMAIN velocity_dict )
    => /\ result = OK
       /\ units = call.frequency_units
       /\ xtype = "frequency"
       /\ values =
            [i \in DOMAIN pre.values |->
                RadioFrequency(call.center_frequency,
                               Mul(pre.values[i],
                                   scaleFactor("velocity", pre.units)))]

\* ------------------------------------------------------------------------
\* C4  Velocity/frequency round trip: velocity_to_frequency(f0, 'radio') on
\* a velocity-typed axis followed by frequency_to_velocity(f0, 'radio') with
\* the same center frequency and the original velocity unit gives back the
\* original values and the original unit.
\* ------------------------------------------------------------------------
C4_DopplerRoundTrip ==
    [][ ( /\ alive
          /\ call.op = "velocity_to_frequency"
          /\ call.center_frequency # NoneNum
          /\ call.frequency_units \in DOMAIN frequency_dict
          /\ call.convention = "radio"
          /\ QuantityFamily(pre.xtype) = "velocity"
          /\ pre.units \in DOMAIN velocity_dict
          /\ FrequencyToVelocity(call.center_frequency, call.frequency_units,
                                 pre.units, "radio") )
        => /\ result' = OK
           /\ units' = pre.units
           /\ values' = pre.values ]_vars

\* ------------------------------------------------------------------------
\* C5  convert_to(targetUnit) with a target unit of a quantity family other
\* than the one of the axis's xtype fails with an error and leaves values,
\* units, xtype and frame unchanged.
\* ------------------------------------------------------------------------
C5_OtherFamilyFails ==
    ( /\ alive
      /\ call.op = "convert_to"
      /\ pre.xtype \in DOMAIN conversion_dict
      /\ pre.units \in DOMAIN conversion_dict[pre.xtype]
      /\ call.unit \in RegisteredUnits
      /\ unit_type_dict[call.unit] # QuantityFamily(pre.xtype) )
    => /\ result \in Errors
       /\ AxisUntouched

\* ------------------------------------------------------------------------
\* C6  velocity_to_frequency and frequency_to_velocity, given a center
\* frequency, valid unit arguments and a convention other than 'radio',
\* 'optical', 'relativistic', fail with the unknown-convention error.
\* As stated, for any axis:
\* ------------------------------------------------------------------------
C6_UnknownConvention_AnyAxis ==
    /\ ( /\ alive
         /\ call.op = "velocity_to_frequency"
         /\ call.center_frequency # NoneNum
         /\ call.frequency_units \in DOMAIN frequency_dict
         /\ call.convention \notin Conventions )
       => result = BadConvention
    /\ ( /\ alive
         /\ call.op = "frequency_to_velocity"
         /\ call.center_frequency # NoneNum
         /\ call.center_frequency_units \in DOMAIN frequency_dict
         /\ call.velocity_units \in DOMAIN velocity_dict
         /\ call.convention \notin Conventions )
       => result = BadConvention

\* C6 as amended: the same, on an axis whose current units are a registered
\* velocity unit (velocity_to_frequency) or a registered frequency unit
\* (frequency_to_velocity); the call fails with the unknown-convention error
\* and no other outcome.
C6_UnknownConvention ==
    /\ ( /\ alive
         /\ call.op = "velocity_to_frequency"
         /\ call.center_frequency # NoneNum
         /\ call.frequency_units \in DOMAIN frequency_dict
         /\ call.convention \notin Conventions
         /\ pre.units \in DOMAIN velocity_dict )
       => result = BadConvention
    /\ ( /\ alive
         /\ call.op = "frequency_to_velocity"
         /\ call.center_frequency # NoneNum
         /\ call.center_frequency_units \in DOMAIN frequency_dict
         /\ call.velocity_units \in DOMAIN velocity_dict
         /\ call.convention \notin Conventions
         /\ pre.units \in DOMAIN frequency_dict )
       => result = BadConvention

C6_Witness ==
    /\ alive
    /\ call.op = "velocity_to_frequency"
    /\ call.center_frequency = Num(2)
    /\ call.frequency_units = "Hz"
    /\ call.convention = "warp"
    /\ pre.units = "m/s"
    /\ result = BadConvention

\* ------------------------------------------------------------------------
\* C7  In every state of an axis, after construction with any arguments the
\* constructor accepts and after any sequence of conversions, units is a
\* unit registered under the quantity family that xtype denotes.
\* ------------------------------------------------------------------------
C7_UnitsMatchXtype ==
    alive =>
        /\ xtype \in DOMAIN conversion_dict
        /\ units \in DOMAIN conversion_dict[xtype]

\* ------------------------------------------------------------------------
\* C8  Construction: a recognized xtype token gives xtype = the token's
\* family and frame = the token's frame, whatever frame was passed;
\* otherwise xtype is the family of the unit and frame is the frame passed.
\* create(.., 'nm') with the default frame gives 'length' and 'rest'.
\* ------------------------------------------------------------------------
C8_Construction ==
    (alive /\ call.op = "new") =>
        /\ call.xtype \in DOMAIN xtype_dict
             => /\ xtype = xtype_dict[call.xtype]
                /\ frame = frame_dict[call.xtype]
        /\ call.xtype \notin DOMAIN xtype_dict
             => /\ xtype = unit_type_dict[call.unit]
                /\ frame = call.frame
        /\ (call.unit = "nm" /\ call.xtype = None /\ call.frame = "rest")
             => (xtype = "length" /\ frame = "rest")
        /\ units = call.unit

C8_Witness ==
    /\ alive
    /\ call.op = "new"
    /\ call.xtype = "VHEL"
    /\ call.unit = "km/s"
    /\ call.frame = "rest"
    /\ xtype = "velocity"
    /\ frame = "heliocentric"

\* ------------------------------------------------------------------------
\* C9  No partial mutation on error: a call of convert_to,
\* velocity_to_frequency or frequency_to_velocity that ends in an error
\* leaves values, units, xtype and frame as they were before the call.
\* ------------------------------------------------------------------------
C9_NoPartialMutation ==
    (alive /\ call.op \in Methods /\ result \in Errors) => AxisUntouched

C9_Witness ==
    /\ alive
    /\ call.op = "frequency_to_velocity"
    /\ call.center_frequency = Num(2)
    /\ call.center_frequency_units = "Hz"
    /\ call.velocity_units = "km/s"
    /\ call.convention = "warp"
    /\ pre.units = "Hz"
    /\ result = BadConvention
    /\ AxisUntouched

\* ------------------------------------------------------------------------
\* C10  frequency_to_velocity with the convention 'radio', for registered
\* units u (current), cu (center frequency) and vu (velocity): values and
\* center frequency are expressed in hertz as value * scaleFactor(frequency,
\* unit), V = c * (f - f0) / f0, and the stored values are
\* V / scaleFactor(velocity, vu), with units set to vu.
\* ------------------------------------------------------------------------
C10_RadioFrequencyToVelocity ==
    ( /\ alive
      /\ call.op = "frequency_to_velocity"
      /\ call.center_frequency # NoneNum
      /\ call.center_frequency_units \in DOMAIN frequency_dict
      /\ call.velocity_units \in DOMAIN velocity_dict
      /\ call.convention = "radio"
      /\ pre.units \in DOMAIN frequency_dict )
    => /\ result = OK
       /\ units = call.velocity_units
       /\ values =
            [i \in DOMAIN pre.values |->
                Div(RadioVelocity(
                        Mul(pre.values[i],
                            scaleFactor("frequency", pre.units)),
                        Mul(call.center_frequency,
                            scaleFactor("frequency",
                                        call.center_frequency_units))),
                    scaleFactor("velocity", call.velocity_units))]

====
